---- MODULE Spec2Model ----
(***************************************************************************)
(* A model of the calorie and fasting tracker.  The repository holds three *)
(* versions of the host component App, each with its own views:            *)
(*   "part_000"  src/unnamed/part_000  (App.tsx + components/FastingTab)   *)
(*   "index"     src/index.tsx         (single-file version)               *)
(*   "part_001"  src/unnamed/part_001  (single-file version, v8 keys)      *)
(* The variable variant says which version runs; it never changes.         *)
(*                                                                         *)
(* JavaScript numbers are modelled as integers.  The two non-integer       *)
(* values the code stores in a number field, null and NaN, are the         *)
(* reserved integers Null and NaN, which no clock value or difference of   *)
(* clock values reaches.                                                   *)
(***************************************************************************)
EXTENDS Integers, Sequences, FiniteSets

VARIABLES
    variant,        \* which version of the host runs
    now,            \* the system clock, what Date.now() returns
    activeTab,      \* App state: 'calories' | 'fasting' | 'settings'
    fastingState,   \* App state: {isActive, startTime}
    fastingLogs,    \* App state: FastingLog[], newest first
    nextId,         \* the next fresh identifier (crypto.randomUUID / Math.random)
    currentTime,    \* FastingTab state: its clock sample, Null while unmounted
    elapsedHours,   \* FastingTab render: the elapsed time in hours
    stageName,      \* FastingTab render: the stage name of the live display
    milestones,     \* FastingTab render: the reached flag of each milestone row
    logs,           \* App state: LogEntry[], newest first
    todayLogs,      \* CaloriesTab memo: today's entries, <<>> while unmounted
    todayRef,       \* the clock sample todayLogs was computed with, Null while unmounted
    profile,        \* App state: UserProfile
    lastResetDate,  \* App state of part_000: the last-reset marker, Null elsewhere
    storage,        \* localStorage: the items of the five keys
    appStatus,      \* "closed", "running", or "crashed": the first render threw
    timers,         \* the number of intervals the fasting view has registered
    interval,       \* FastingTab effect: its variable interval holds a handle
    modal,          \* FastingTab state: which of its modals is open, or "none"
    lastOp          \* history: the operation that produced this state

\* The state of the host and of the fasting view's timer.
hostVars == <<now, activeTab, fastingState, fastingLogs, nextId, currentTime>>

\* What the fasting view's stage display is rendered from, and what it shows.
stageVars == <<elapsedHours, stageName, milestones>>

\* The calorie log and the calories view's memo of today's entries.
ledgerVars == <<logs, todayLogs, todayRef>>

\* The persisted records that the earlier tuples do not hold, the store and
\* the outcome of loading from it.
storageVars == <<profile, lastResetDate, storage, appStatus>>

\* The refresh timer and the modals of the fasting view.
timerVars == <<timers, interval, modal>>

vars == <<variant, hostVars, stageVars, ledgerVars, storageVars, timerVars, lastOp>>

---------------------------------------------------------------------------
(* Bounds of the model.                                                    *)

MaxTime == 3

MaxLogs == 2

MaxHours == 200

\* The calorie ledger: the clock's range, the number of entries ever added and
\* the largest calorie count of an entry.
MaxInstant == 9

MaxEntries == 2

MaxCalories == 1

\* The calendar, scaled down: clock ticks per day, days per month, months
\* per year.
TicksPerDay == 2

DaysPerMonth == 2

MonthsPerYear == 2

\* The summary of the calories view: the number of entries ever added.
MaxMeals == 3

---------------------------------------------------------------------------
(* JavaScript values.                                                      *)

Null == -998

NaN == -999

\* The truthiness of a value of type number | null: null, NaN and 0 are falsy.
Truthy(x) == x # Null /\ x # NaN /\ x # 0

\* a - b on numbers: NaN if either operand is NaN.
Minus(a, b) == IF a = NaN \/ b = NaN THEN NaN ELSE a - b

Variants == {"part_000", "index", "part_001"}

Tabs == {"calories", "fasting", "settings"}

---------------------------------------------------------------------------
(* The fasting session: host state and operations.                         *)

\* { isActive: false, startTime: null }
Idle == [isActive |-> FALSE, startTime |-> Null]

\* The start form's text field: empty, text that is no date-time, or a
\* date-time (any instant, before or after the clock).
CustomStartTimes ==
    {[kind |-> "empty", t |-> 0], [kind |-> "invalid", t |-> 0]}
    \cup {[kind |-> "time", t |-> t] : t \in 0..MaxTime}

\* new Date(customStartTime).getTime()
parseDateTime(c) == IF c.kind = "time" THEN c.t ELSE NaN

\* customStartTime ? new Date(customStartTime).getTime() : Date.now()
handleStart(c, clock) == IF c.kind = "empty" THEN clock ELSE parseDateTime(c)

\* Every value the start form can hand to startFast.
StartTimes == (0..MaxTime) \cup {NaN}

\* startFast with 0 and NaN coalesced to null (startTime || null).
startFastCoalesced(startTime) ==
    [isActive |-> TRUE, startTime |-> IF Truthy(startTime) THEN startTime ELSE Null]

\* setFastingState({ isActive: true, startTime })
startFast(startTime) == [isActive |-> TRUE, startTime |-> startTime]

\* The end operation clearing the flag alone ({...fastingState, isActive: false}).
endFastStateKeepsStart(fs) == [fs EXCEPT !.isActive = FALSE]

\* setFastingState({ isActive: false, startTime: null })
endFastState(fs) == Idle

\* endFast's guard with the test of the session left out.
endFastGuardAlways(v, fs) == TRUE

\* The condition under which the end operation records a log.
endFastGuard(v, fs) ==
    IF v = "index"
    THEN Truthy(fs.startTime)
    ELSE fs.isActive /\ Truthy(fs.startTime)

\* The values the clock can show at a handler's second Date.now() call, the
\* first having returned n.  Only index.tsx samples the clock twice.
SecondSample(v, n) ==
    IF v = "index" THEN {m \in {n, n + 1} : m <= MaxTime} ELSE {n}

\* The FastingLog the end operation builds: n1 is the clock sample stored as
\* endTime, n2 the sample the duration is computed from.
newFastingLog(id, fs, n1, n2) ==
    [id |-> id, startTime |-> fs.startTime, endTime |-> n1,
     duration |-> Minus(n2, fs.startTime)]

\* The view's derived elapsed time.
elapsedMs ==
    IF fastingState.isActive /\ Truthy(fastingState.startTime)
    THEN Minus(currentTime, fastingState.startTime)
    ELSE 0

---------------------------------------------------------------------------
(* The calorie ledger: the log collection and the day-scoped selection.    *)

\* The number of whole days between the epoch and an instant, local time.
LocalDay(t) == t \div TicksPerDay

\* new Date(t).getDate(): the day of the month, from 1.
getDate(t) == (LocalDay(t) % DaysPerMonth) + 1

\* new Date(t).getMonth(): the month of the year, from 0.
getMonth(t) == (LocalDay(t) \div DaysPerMonth) % MonthsPerYear

\* new Date(t).getFullYear()
getFullYear(t) == 1970 + (LocalDay(t) \div (DaysPerMonth * MonthsPerYear))

\* isSameDay testing that the instants are less than a day apart.
isSameDayWithin24h(d1, d2) ==
    IF d1 >= d2 THEN d1 - d2 < TicksPerDay ELSE d2 - d1 < TicksPerDay

\* isSameDay(d1, d2)
isSameDay(d1, d2) ==
    /\ getFullYear(d1) = getFullYear(d2)
    /\ getMonth(d1) = getMonth(d2)
    /\ getDate(d1) = getDate(d2)

\* logs.filter(log => isSameDay(log.timestamp, Date.now()))
todayLogsOf(ls, clock) ==
    SelectSeq(ls, LAMBDA log : isSameDay(log.timestamp, clock))

\* What the entry forms submit: the kind, the name and the calorie count.
\* An activity entry is named after its activity type.
EntryInputs ==
    [type : {"food"}, name : {"apple"}, calories : 1..MaxCalories]
    \cup [type : {"activity"}, name : {"Walking"}, calories : 1..MaxCalories]

\* addLog putting the new entry at the end ([...logs, {...}]).
addLogAppended(ls, entry, id, clock) ==
    ls \o << [id |-> id, type |-> entry.type, name |-> entry.name,
              calories |-> entry.calories, timestamp |-> clock] >>

\* [{...entry, id, timestamp: Date.now()}, ...logs]
addLog(ls, entry, id, clock) ==
    << [id |-> id, type |-> entry.type, name |-> entry.name,
        calories |-> entry.calories, timestamp |-> clock] >> \o ls

\* deleteLog removing the newest entry, whatever the identifier.
deleteLogNewest(ls, id) == IF ls = <<>> THEN ls ELSE Tail(ls)

\* logs.filter(log => log.id !== id)
deleteLog(ls, id) == SelectSeq(ls, LAMBDA log : log.id # id)

\* The calories view renders: the memo is computed from the log collection
\* and one sample of the clock.
RenderToday(ls, clock) ==
    /\ todayLogs' = todayLogsOf(ls, clock)
    /\ todayRef' = clock

\* The calories view is unmounted and its memo dropped.
UnmountToday ==
    /\ todayLogs' = <<>>
    /\ todayRef' = Null

---------------------------------------------------------------------------
(* The profile and the daily target.  An energy value that can be          *)
(* fractional is a fixed-point number: Kcal(1) units to the kilocalorie,   *)
(* which holds every product of a quarter and a thousandth exactly.        *)

\* n kilocalories as a fixed-point number.
Kcal(n) == n * 4000

\* Math.round(x): the nearest whole number, a half rounding up.
MathRound(x) == ((x + (Kcal(1) \div 2)) \div Kcal(1)) * Kcal(1)

\* The instant at which day d (from 1) of month m (from 0) of year y begins.
Instant(y, m, d) ==
    ((((y - 1970) * MonthsPerYear) + m) * DaysPerMonth + (d - 1)) * TicksPerDay

\* The day the profile and the summary are observed on: 1 January 2025.
Today == Instant(2025, 0, 1)

\* A date of birth as the date field delivers it: the empty string, text
\* that is no date, or a date.
DateOfBirth(y, m, d) == [kind |-> "date", t |-> Instant(y, m, d)]

DobInputs ==
    {[kind |-> "empty", t |-> 0], [kind |-> "invalid", t |-> 0],
     DateOfBirth(1995, 0, 1), DateOfBirth(1995, 1, 1), DateOfBirth(2023, 0, 1),
     DateOfBirth(2024, 0, 1), DateOfBirth(2025, 0, 1)}

\* The age in whole years of someone born at instant t, at instant clock.
ageAt(t, clock) ==
    LET age == getFullYear(clock) - getFullYear(t)
        m == getMonth(clock) - getMonth(t)
    IN  IF m < 0 \/ (m = 0 /\ getDate(clock) < getDate(t)) THEN age - 1 ELSE age

\* calculateAge(dob) of helpers.ts and index.tsx: new Date(dob) of the empty
\* string or of text that is no date is an invalid date, whose fields are NaN.
calculateAge(dob, clock) ==
    IF dob.kind = "date" THEN ageAt(dob.t, clock) ELSE NaN

\* calculateAge(dob) of part_001: if (!dob) return 0.
calculateAge_part_001(dob, clock) ==
    IF dob.kind = "empty" THEN 0 ELSE calculateAge(dob, clock)

\* The Mifflin-St Jeor equation with the constant of the female branch in
\* both branches.
mifflinStJeorOneBranch(weight, height, age, gender) ==
    IF age = NaN THEN NaN
    ELSE (10 * Kcal(weight)) + ((25 * Kcal(height)) \div 4) - (5 * Kcal(age))
            - Kcal(161)

\* (10 * weight) + (6.25 * height) - (5 * age) + 5, or - 161 if not male.
mifflinStJeor(weight, height, age, gender) ==
    IF age = NaN THEN NaN
    ELSE (10 * Kcal(weight)) + ((25 * Kcal(height)) \div 4) - (5 * Kcal(age))
            + (IF gender = "male" THEN Kcal(5) ELSE 0 - Kcal(161))

\* calculateBMR(profile)
calculateBMR(p, clock) ==
    mifflinStJeor(p.weight, p.height, calculateAge(p.dob, clock), p.gender)

\* ACTIVITY_MULTIPLIERS, in thousandths.  (A basal rate of whole kilograms,
\* centimetres and years is a whole number of thousands of units, so the
\* product with a multiplier is formed exactly from rate \div 1000.)
ACTIVITY_MULTIPLIERS ==
    [sedentary |-> 1200, lightly_active |-> 1375, moderately_active |-> 1550,
     very_active |-> 1725, extra_active |-> 1900]

ActivityLevels == DOMAIN ACTIVITY_MULTIPLIERS

\* calculateDailyTarget(profile)
calculateDailyTarget(p, clock) ==
    LET age == calculateAge_part_001(p.dob, clock)
    IN  IF ~Truthy(p.weight) \/ ~Truthy(p.height) \/ ~Truthy(age)
        THEN Kcal(2000)
        ELSE LET bmr == mifflinStJeor(p.weight, p.height, age, p.gender)
                 tdee == (bmr \div 1000) * ACTIVITY_MULTIPLIERS[p.activityLevel]
             IN  MathRound(tdee - Kcal(p.deficitGoal))

\* The computed target of a version: calculateDailyTarget in part_001,
\* calculateBMR in the versions whose profile has no activity level.
computedTarget(v, p, clock) ==
    IF v = "part_001" THEN calculateDailyTarget(p, clock) ELSE calculateBMR(p, clock)

\* const dailyLimit = profile.manualLimit || <the computed target>
dailyLimitOf(v, p, clock) ==
    IF Truthy(p.manualLimit) THEN p.manualLimit ELSE computedTarget(v, p, clock)

\* The profile of a fresh installation.  The versions other than part_001
\* have no activity level and no deficit goal.
DefaultProfile(v) ==
    [dob |-> IF v = "part_000" THEN DateOfBirth(1990, 0, 1) ELSE DateOfBirth(1995, 0, 1),
     height |-> 175, weight |-> 70, gender |-> "male", manualLimit |-> Null,
     activityLevel |-> IF v = "part_001" THEN "moderately_active" ELSE "undefined",
     deficitGoal |-> IF v = "part_001" THEN 500 ELSE Null]

\* The manual limits the settings form can submit with a profile whose limit
\* is old: null with the override off; with it on, the number typed, or in
\* part_001 Number(null) = 0 if the field was left alone.  The settings view
\* of index.tsx has no field for the limit and submits the one it was given.
ManualLimits(v, old) ==
    IF v = "index" THEN {old} ELSE {Null, 0, Kcal(5)}

\* The profiles the settings form of a version can submit.
SettingsForms(v, p) ==
    [dob : DobInputs, height : {0, 175}, weight : {0, 70},
     gender : {"male", "female"}, manualLimit : ManualLimits(v, p.manualLimit),
     activityLevel : IF v = "part_001" THEN ActivityLevels ELSE {"undefined"},
     deficitGoal : IF v = "part_001" THEN {0, 500, 5000} ELSE {Null}]

---------------------------------------------------------------------------
(* Local storage.                                                          *)

\* One item of localStorage: absent ("missing"), text that is not JSON
\* ("corrupt"), the text null ("null"), or the JSON text of a value ("json").
Item(kind, value) == [kind |-> kind, value |-> value]

\* JSON.stringify of a number: NaN has no JSON text and is written as null.
jsonNumber(x) == IF x = NaN THEN Null ELSE x

\* JSON.parse(JSON.stringify(profile))
stringifyProfile(p) ==
    [p EXCEPT !.height = jsonNumber(@), !.weight = jsonNumber(@),
              !.manualLimit = jsonNumber(@), !.deficitGoal = jsonNumber(@)]

\* JSON.parse(JSON.stringify(logs))
stringifyLogs(ls) ==
    [i \in 1..Len(ls) |->
        [ls[i] EXCEPT !.calories = jsonNumber(@), !.timestamp = jsonNumber(@)]]

\* JSON.parse(JSON.stringify(fastingLogs))
stringifyFastingLogs(fl) ==
    [i \in 1..Len(fl) |->
        [fl[i] EXCEPT !.startTime = jsonNumber(@), !.endTime = jsonNumber(@),
                      !.duration = jsonNumber(@)]]

\* JSON.parse(JSON.stringify(fastingState))
stringifyFastingState(fs) == [fs EXCEPT !.startTime = jsonNumber(@)]

\* What the persistence effects have written once they have run for a state:
\* the JSON text of the four records and, in part_000, the decimal text of
\* the last-reset marker.
StoredState(v, p, ls, fl, fs, lr) ==
    [profile |-> Item("json", stringifyProfile(p)),
     logs |-> Item("json", stringifyLogs(ls)),
     fastingLogs |-> Item("json", stringifyFastingLogs(fl)),
     fastingState |-> Item("json", stringifyFastingState(fs)),
     lastReset |-> IF v = "part_000" THEN Item("json", lr) ELSE Item("missing", Null)]

\* JSON.parse(saved) throws a SyntaxError.
parseThrows(item) == item.kind = "corrupt"

\* The initialiser of profile: saved ? JSON.parse(saved) : DEFAULT_PROFILE in
\* part_000 and part_001, JSON.parse(saved || 'null') || {...} in index.tsx.
loadProfile(v, item) == IF item.kind = "json" THEN item.value ELSE DefaultProfile(v)

\* The profile loaded is null, and the host's first render throws a
\* TypeError reading profile.manualLimit.
profileIsNull(v, item) == item.kind = "null" /\ v # "index"

\* The initialisers of logs and fastingLogs: an absent item gives [].
loadList(item) == IF item.kind = "json" THEN item.value ELSE <<>>

\* The initialiser of fastingState: an absent item gives the idle session.
loadFastingState(item) == IF item.kind = "json" THEN item.value ELSE Idle

\* The initialiser of lastResetDate: saved ? parseInt(saved) : Date.now()
loadLastReset(item, clock) ==
    IF item.kind = "missing" THEN clock
    ELSE IF item.kind = "json" THEN item.value ELSE NaN

\* checkReset setting the marker on every run.
checkResetAlways(lr, clock) == clock

\* checkReset: if (!isSameDay(now, lastResetDate)) setLastResetDate(now)
checkReset(lr, clock) == IF lr # NaN /\ isSameDay(clock, lr) THEN lr ELSE clock

\* The persistence effects run after a handler has changed the state.
Persist ==
    storage' = StoredState(variant, profile', logs', fastingLogs', fastingState',
                           lastResetDate')

---------------------------------------------------------------------------
(* The summary of the calories view, as index.tsx and part_001 compute it  *)
(* on every render.  (The calories view of part_000 is not in the source.) *)

SummaryVariants == {"index", "part_001"}

RECURSIVE sumCalories(_, _)
\* todayLogs.filter(log => log.type === type)
\*          .reduce((sum, log) => sum + log.calories, 0)
sumCalories(tl, type) ==
    IF tl = <<>> THEN 0
    ELSE (IF Head(tl).type = type THEN Head(tl).calories ELSE 0)
            + sumCalories(Tail(tl), type)

consumed(tl) == Kcal(sumCalories(tl, "food"))

burned(tl) == Kcal(sumCalories(tl, "activity"))

\* const netCalories = consumed - burned
netCalories(tl) == consumed(tl) - burned(tl)

\* remaining with the activity calories counted as eaten.
remainingBurnedAdded(limit, tl) == Minus(limit, consumed(tl) + burned(tl))

\* const remaining = dailyLimit - netCalories
remaining(limit, tl) == Minus(limit, netCalories(tl))

\* a / b on numbers, as the fraction num / den or the non-finite value that
\* division by zero gives.
Divide(a, b) ==
    IF a = NaN \/ b = NaN \/ (a = 0 /\ b = 0)
    THEN [kind |-> "NaN", num |-> 0, den |-> 1]
    ELSE IF b = 0
    THEN [kind |-> IF a > 0 THEN "Infinity" ELSE "-Infinity", num |-> 0, den |-> 1]
    ELSE [kind |-> "finite", num |-> a, den |-> b]

\* const percentage = (netCalories / dailyLimit) * 100
percentage(limit, tl) ==
    LET q == Divide(netCalories(tl), limit)
    IN  [q EXCEPT !.num = 100 * q.num]

\* const isRedAlert = remaining <= 0                                (part_001)
\* const isRedAlert = remaining <= (dailyLimit * 0.1) || remaining < 0 (index)
isRedAlert(v, limit, tl) ==
    LET r == remaining(limit, tl)
    IN  /\ r # NaN
        /\ IF v = "part_001" THEN r <= 0 ELSE 10 * r <= limit \/ r < 0

\* The daily limit the host hands to the calories view.
dailyLimit == dailyLimitOf(variant, profile, now)

---------------------------------------------------------------------------
(* The refresh timer of the fasting view: an effect with the dependency    *)
(* fastingState.isActive, which registers a one-second interval if the     *)
(* session is active and whose cleanup clears the interval it registered.  *)

\* A cleanup that clears nothing (return () => {}).
cleanupNothing(n, handle) == n

\* return () => { if (interval) clearInterval(interval) }: the number of
\* registered intervals after the cleanup, n being the number before.
cleanup(n, handle) == IF handle THEN n - 1 ELSE n

\* After a handler has changed the state, React unmounts or mounts the
\* fasting view or renders it again: the cleanup runs if the view is
\* unmounted or its dependency changed, the effect runs if the view is
\* mounted or its dependency changed.
FastingEffect ==
    LET wasMounted == activeTab = "fasting"
        isMounted == activeTab' = "fasting"
        changed == fastingState.isActive # fastingState'.isActive
        cleans == wasMounted /\ (~isMounted \/ changed)
        runs == isMounted /\ (~wasMounted \/ changed)
        cleaned == IF cleans THEN cleanup(timers, interval) ELSE timers
    IN  /\ timers' = IF runs /\ fastingState'.isActive THEN cleaned + 1 ELSE cleaned
        /\ interval' = IF runs THEN fastingState'.isActive
                        ELSE IF cleans THEN FALSE ELSE interval

---------------------------------------------------------------------------
(* Actions.                                                                *)

\* The clock advances, up to max.
ClockAdvance(max) ==
    /\ now < max
    /\ now' = now + 1
    /\ lastOp' = "tick"
    /\ UNCHANGED <<variant, activeTab, fastingState, fastingLogs, nextId, currentTime>>
    /\ UNCHANGED <<stageVars, ledgerVars, storageVars, timerVars>>

\* The clock advances while the fasting session is observed.
Tick == ClockAdvance(MaxTime)

\* setActiveTab(tab): the view of the old tab is unmounted and its state is
\* dropped, the view of the new tab is mounted and initialises its state.
\* An open modal covers the navigation.
SetActiveTab(tab) ==
    /\ tab # activeTab
    /\ modal = "none"
    /\ activeTab' = tab
    /\ modal' = "none"
    /\ currentTime' = IF tab = "fasting" THEN now ELSE Null
    /\ IF tab = "calories" THEN RenderToday(logs, now) ELSE UnmountToday
    /\ lastOp' = "setActiveTab"
    /\ UNCHANGED <<variant, now, fastingState, fastingLogs, nextId, logs>>
    /\ UNCHANGED <<stageVars, storageVars>>
    /\ FastingEffect

\* A registered one-second interval of the fasting view fires:
\* setCurrentTime(Date.now()).
ViewTick ==
    /\ timers > 0
    /\ currentTime' = now
    /\ lastOp' = "viewTick"
    /\ UNCHANGED <<variant, now, activeTab, fastingState, fastingLogs, nextId>>
    /\ UNCHANGED <<stageVars, ledgerVars, storageVars, timerVars>>

\* onStartFast(t), called by the fasting view, which then closes its start
\* modal: setStartModalOpen(false).
StartFast(t) ==
    /\ activeTab = "fasting"
    /\ fastingState' = startFast(t)
    /\ modal' = "none"
    /\ lastOp' = "startFast"
    /\ UNCHANGED <<variant, now, activeTab, fastingLogs, nextId, currentTime>>
    /\ UNCHANGED <<stageVars, ledgerVars, profile, lastResetDate, appStatus>>
    /\ Persist
    /\ FastingEffect

\* The start form is submitted with some content of its text field.
HandleStart == \E c \in CustomStartTimes : StartFast(handleStart(c, now))

\* onEndFast(), called by the fasting view, which then closes its end modal:
\* setEndModalOpen(false).
EndFast ==
    /\ activeTab = "fasting"
    /\ modal' = "none"
    /\ \E n2 \in SecondSample(variant, now) :
          IF endFastGuard(variant, fastingState)
          THEN /\ Len(fastingLogs) < MaxLogs
               /\ fastingLogs' =
                     <<newFastingLog(nextId, fastingState, now, n2)>> \o fastingLogs
               /\ nextId' = nextId + 1
               /\ now' = n2
          ELSE UNCHANGED <<fastingLogs, nextId, now>>
    /\ fastingState' = endFastState(fastingState)
    /\ lastOp' = IF fastingState.isActive THEN "endFastActive" ELSE "endFastIdle"
    /\ UNCHANGED <<variant, activeTab, currentTime>>
    /\ UNCHANGED <<stageVars, ledgerVars, profile, lastResetDate, appStatus>>
    /\ Persist
    /\ FastingEffect

\* The settings form is saved with the profile form: onSaveProfile(form).
\* The host of part_001 then shows the calories view.
SaveProfile(form) ==
    /\ activeTab = "settings"
    /\ profile' = form
    /\ IF variant = "part_001"
       THEN /\ activeTab' = "calories"
            /\ RenderToday(logs, now)
       ELSE UNCHANGED <<activeTab, todayLogs, todayRef>>
    /\ lastOp' = "saveProfile"
    /\ UNCHANGED <<variant, now, fastingState, fastingLogs, nextId, currentTime, logs>>
    /\ UNCHANGED <<stageVars, lastResetDate, appStatus, timerVars>>
    /\ Persist

\* The page is loaded: the timers of the page left are gone, the state
\* initialisers read localStorage, the host renders the calories view, and
\* the effects of the mount run (each record
\* is written back; part_000 checks the last-reset marker).  If an
\* initialiser or the first render throws, nothing is mounted and the other
\* variables keep the values of a fresh installation.
Reload ==
    /\ IF \/ parseThrows(storage.profile)
          \/ profileIsNull(variant, storage.profile)
          \/ parseThrows(storage.logs)
          \/ parseThrows(storage.fastingLogs)
          \/ parseThrows(storage.fastingState)
       THEN /\ appStatus' = "crashed"
            /\ profile' = DefaultProfile(variant)
            /\ logs' = <<>>
            /\ fastingLogs' = <<>>
            /\ fastingState' = Idle
            /\ lastResetDate' = IF variant = "part_000" THEN now ELSE Null
            /\ storage' = storage
            /\ UnmountToday
       ELSE /\ appStatus' = "running"
            /\ profile' = loadProfile(variant, storage.profile)
            /\ logs' = loadList(storage.logs)
            /\ fastingLogs' = loadList(storage.fastingLogs)
            /\ fastingState' = loadFastingState(storage.fastingState)
            /\ lastResetDate' =
                  IF variant = "part_000"
                  THEN checkReset(loadLastReset(storage.lastReset, now), now)
                  ELSE Null
            /\ Persist
            /\ RenderToday(logs', now)
    /\ activeTab' = "calories"
    /\ currentTime' = Null
    /\ timers' = 0
    /\ interval' = FALSE
    /\ modal' = "none"
    /\ lastOp' = "reload"
    /\ UNCHANGED <<variant, now, nextId>>
    /\ UNCHANGED stageVars

\* The one-minute interval of the mounted host of part_000: checkReset().
\* The host renders again if the marker changed; the calories view keeps its
\* memo, whose dependency logs did not change.
CheckReset ==
    /\ variant = "part_000"
    /\ appStatus = "running"
    /\ lastResetDate' = checkReset(lastResetDate, now)
    /\ lastOp' = IF isSameDay(now, lastResetDate)
                 THEN "checkResetSameDay" ELSE "checkReset"
    /\ UNCHANGED <<variant, hostVars, stageVars, ledgerVars, profile, appStatus>>
    /\ UNCHANGED timerVars
    /\ Persist

---------------------------------------------------------------------------
(* The metabolic stages: the stage function of the live display and the    *)
(* milestone table of the list below it.  Hours are whole hours.           *)

\* The versions whose fasting view shows a stage name in the live display.
StageVariants == {"part_000", "part_001"}

\* getFastingStage with the brackets closed above (hours <= 4, ...).
getFastingStageClosedAbove(hours) ==
    IF hours <= 4 THEN "Fed State"
    ELSE IF hours <= 12 THEN "Early Fasting"
    ELSE IF hours <= 24 THEN "Glycogen Depletion"
    ELSE IF hours <= 48 THEN "Ketosis Initiation"
    ELSE IF hours <= 72 THEN "Deep Ketosis"
    ELSE IF hours <= 96 THEN "Autophagy Activation"
    ELSE "Protein Conservation Phase"

\* getFastingStage(hours).name, the names being those of the enum FastingStage.
getFastingStage(hours) ==
    IF hours < 4 THEN "Fed State"
    ELSE IF hours < 12 THEN "Early Fasting"
    ELSE IF hours < 24 THEN "Glycogen Depletion"
    ELSE IF hours < 48 THEN "Ketosis Initiation"
    ELSE IF hours < 72 THEN "Deep Ketosis"
    ELSE IF hours < 96 THEN "Autophagy Activation"
    ELSE "Protein Conservation Phase"

\* getFastingStageName(hours)
getFastingStageName(hours) ==
    IF hours < 4 THEN "Fed State"
    ELSE IF hours < 12 THEN "Early Fasting"
    ELSE IF hours < 24 THEN "Glycogen Depletion"
    ELSE IF hours < 48 THEN "Ketosis Initiation"
    ELSE IF hours < 72 THEN "Deep Ketosis"
    ELSE IF hours < 96 THEN "Autophagy Activation"
    ELSE "Protein Conservation Phase"

\* The milestone table of the fasting view of part_000.
STAGES ==
    << [hours |-> 0, name |-> "Fed State"],
       [hours |-> 4, name |-> "Early Fasting"],
       [hours |-> 12, name |-> "Glycogen Depletion"],
       [hours |-> 24, name |-> "Ketosis Initiation"],
       [hours |-> 48, name |-> "Deep Ketosis"],
       [hours |-> 48, name |-> "Autophagy Activation"],
       [hours |-> 72, name |-> "Protein Conservation"] >>

\* The milestone table of the fasting view of part_001.
FASTING_STAGES ==
    << [hours |-> 0, name |-> "Fed State"],
       [hours |-> 4, name |-> "Early Fasting"],
       [hours |-> 12, name |-> "Glycogen Depletion"],
       [hours |-> 24, name |-> "Ketosis Initiation"],
       [hours |-> 48, name |-> "Deep Ketosis"],
       [hours |-> 72, name |-> "Autophagy Activation"],
       [hours |-> 96, name |-> "Protein Conservation"] >>

\* The milestone table of the fasting view of index.tsx.
STAGES_INDEX ==
    << [hours |-> 0, name |-> "Blood Sugar Dropping"],
       [hours |-> 12, name |-> "Fat Burning Mode"],
       [hours |-> 18, name |-> "Ketosis State"],
       [hours |-> 24, name |-> "Autophagy Stage"] >>

\* The milestone table a version's fasting view renders.
stageTable(v) ==
    IF v = "part_000" THEN STAGES
    ELSE IF v = "part_001" THEN FASTING_STAGES
    ELSE STAGES_INDEX

\* What a version's live display shows under the timer of an active session:
\* the stage name, or in index.tsx the fixed text "Time Fasted".
liveStage(v, hours) ==
    IF v = "part_000" THEN getFastingStage(hours)
    ELSE IF v = "part_001" THEN getFastingStageName(hours)
    ELSE "Time Fasted"

\* The milestone list: const isActive = elapsedHours >= stage.hours, per row.
milestoneFlags(table, hours) ==
    [i \in 1..Len(table) |-> hours >= table[i].hours]

\* One render of the stage display for a value of elapsedHours.
RenderStage(v, hours) ==
    /\ elapsedHours' = hours
    /\ stageName' = liveStage(v, hours)
    /\ milestones' = milestoneFlags(stageTable(v), hours)

\* An hour passes on an active session and the view is rendered again.
HourPasses ==
    /\ elapsedHours < MaxHours
    /\ RenderStage(variant, elapsedHours + 1)
    /\ lastOp' = "hourPasses"
    /\ UNCHANGED <<variant, hostVars, ledgerVars, storageVars, timerVars>>

---------------------------------------------------------------------------
(* The stage specification: the fasting view of an active session rendered *)
(* for every elapsed time of 0..MaxHours hours.  The elapsed time is given *)
(* in hours directly; the host's clock stands still.                       *)

InitStage ==
    /\ variant \in StageVariants
    /\ now = 1
    /\ activeTab = "fasting"
    /\ fastingState = startFast(1)
    /\ fastingLogs = <<>>
    /\ nextId = 1
    /\ currentTime = 1
    /\ elapsedHours \in 0..MaxHours
    /\ stageName = liveStage(variant, elapsedHours)
    /\ milestones = milestoneFlags(stageTable(variant), elapsedHours)
    /\ logs = <<>>
    /\ todayLogs = <<>>
    /\ todayRef = Null
    /\ profile = DefaultProfile(variant)
    /\ lastResetDate = IF variant = "part_000" THEN now ELSE Null
    /\ storage = StoredState(variant, profile, logs, fastingLogs, fastingState,
                             lastResetDate)
    /\ appStatus = "running"
    /\ timers = 1
    /\ interval = TRUE
    /\ modal = "none"
    /\ lastOp = "init"

NextStage == HourPasses

SpecStage == InitStage /\ [][NextStage]_vars

---------------------------------------------------------------------------
(* The fasting specification.                                              *)

Init ==
    /\ variant \in Variants
    /\ now \in 0..MaxTime
    /\ activeTab = "calories"
    /\ fastingState = Idle
    /\ fastingLogs = <<>>
    /\ nextId = 1
    /\ currentTime = Null
    /\ elapsedHours = 0
    /\ stageName = liveStage(variant, 0)
    /\ milestones = milestoneFlags(stageTable(variant), 0)
    /\ logs = <<>>
    /\ todayLogs = todayLogsOf(logs, now)
    /\ todayRef = now
    /\ profile = DefaultProfile(variant)
    /\ lastResetDate = IF variant = "part_000" THEN now ELSE Null
    /\ storage = StoredState(variant, profile, logs, fastingLogs, fastingState,
                             lastResetDate)
    /\ appStatus = "running"
    /\ timers = 0
    /\ interval = FALSE
    /\ modal = "none"
    /\ lastOp = "init"

Next ==
    \/ Tick
    \/ \E tab \in Tabs : SetActiveTab(tab)
    \/ ViewTick
    \/ HandleStart
    \/ EndFast

Spec == Init /\ [][Next]_vars

---------------------------------------------------------------------------
(* The ledger specification: entries are added and deleted while the clock *)
(* passes over days, months and a year.                                    *)

\* The clock advances while the ledger is observed.
LedgerTick == ClockAdvance(MaxInstant)

\* onAddLog(entry), called by the calories view; the view renders again
\* because logs changed.
AddLog(entry) ==
    /\ activeTab = "calories"
    /\ logs' = addLog(logs, entry, nextId, now)
    /\ nextId' = nextId + 1
    /\ RenderToday(logs', now)
    /\ lastOp' = "addLog"
    /\ UNCHANGED <<variant, now, activeTab, fastingState, fastingLogs, currentTime>>
    /\ UNCHANGED <<stageVars, profile, lastResetDate, appStatus, timerVars>>
    /\ Persist

\* onDeleteLog(id), called by the calories view; the view renders again
\* because filter returns a new array.
DeleteLog(id) ==
    /\ activeTab = "calories"
    /\ logs' = deleteLog(logs, id)
    /\ RenderToday(logs', now)
    /\ lastOp' = IF \E i \in 1..Len(logs) : logs[i].id = id
                 THEN "deleteLog" ELSE "deleteLogAbsent"
    /\ UNCHANGED <<variant, now, activeTab, fastingState, fastingLogs, nextId, currentTime>>
    /\ UNCHANGED <<stageVars, profile, lastResetDate, appStatus, timerVars>>
    /\ Persist

\* An entry is added while the ledger is observed.
AddEntry(entry) == nextId <= MaxEntries /\ AddLog(entry)

NextLedger ==
    \/ LedgerTick
    \/ \E tab \in Tabs : SetActiveTab(tab)
    \/ \E entry \in EntryInputs : AddEntry(entry)
    \/ \E id \in 1..MaxEntries : DeleteLog(id)

SpecLedger == Init /\ [][NextLedger]_vars

---------------------------------------------------------------------------
(* The summary specification: on 1 January 2025 and the day after, the     *)
(* profile is saved in the settings view and entries are added in the      *)
(* calories view of index.tsx and part_001.                                *)

\* The state after construction on a fresh installation, at instant Today.
InitToday(versions) ==
    /\ variant \in versions
    /\ now = Today
    /\ activeTab = "calories"
    /\ fastingState = Idle
    /\ fastingLogs = <<>>
    /\ nextId = 1
    /\ currentTime = Null
    /\ elapsedHours = 0
    /\ stageName = liveStage(variant, 0)
    /\ milestones = milestoneFlags(stageTable(variant), 0)
    /\ logs = <<>>
    /\ todayLogs = todayLogsOf(logs, now)
    /\ todayRef = now
    /\ profile = DefaultProfile(variant)
    /\ lastResetDate = IF variant = "part_000" THEN now ELSE Null
    /\ storage = StoredState(variant, profile, logs, fastingLogs, fastingState,
                             lastResetDate)
    /\ appStatus = "running"
    /\ timers = 0
    /\ interval = FALSE
    /\ modal = "none"
    /\ lastOp = "init"

\* The profiles saved while the summary is observed: a man of no weight and
\* height or of 70 kg and 175 cm, aged 1 or 2, with or without a limit of his
\* own; each is a form of SettingsForms.
SummaryForms(v, p) ==
    {[dob |-> d, height |-> b[1], weight |-> b[2], gender |-> "male",
      manualLimit |-> m,
      activityLevel |-> DefaultProfile(v).activityLevel,
      deficitGoal |-> DefaultProfile(v).deficitGoal] :
        d \in {DateOfBirth(2023, 0, 1), DateOfBirth(2024, 0, 1)},
        b \in {<<0, 0>>, <<175, 70>>},
        m \in ManualLimits(v, p.manualLimit) \ {0}}

\* The entries added while the summary is observed.
SummaryEntries ==
    [type : {"food"}, name : {"apple"}, calories : {4, 5}]
    \cup [type : {"activity"}, name : {"Walking"}, calories : {5}]

\* The clock advances while the summary is observed.
SummaryTick == ClockAdvance(Today + TicksPerDay)

\* An entry is added in the calories view.
AddMeal(entry) == nextId <= MaxMeals /\ AddLog(entry)

NextSummary ==
    \/ SummaryTick
    \/ \E tab \in {"calories", "settings"} : SetActiveTab(tab)
    \/ \E form \in SummaryForms(variant, profile) : SaveProfile(form)
    \/ \E entry \in SummaryEntries : AddMeal(entry)

SpecSummary == InitToday(SummaryVariants) /\ [][NextSummary]_vars

---------------------------------------------------------------------------
(* The target specification: on 1 January 2025 the settings form is saved  *)
(* with every profile it can submit, in every version.                     *)

NextTarget ==
    \/ \E tab \in {"calories", "settings"} : SetActiveTab(tab)
    \/ \E form \in SettingsForms(variant, profile) : SaveProfile(form)

SpecTarget == InitToday(Variants) /\ [][NextTarget]_vars

---------------------------------------------------------------------------
(* The storage specification: a fasting session is started and ended, the  *)
(* profile is saved and the page is loaded again.                          *)

\* The profiles saved while the storage is observed.
StorageForms(v, p) ==
    {[DefaultProfile(v) EXCEPT !.manualLimit = m] : m \in ManualLimits(v, p.manualLimit)}

NextStorage ==
    \/ \E tab \in Tabs : SetActiveTab(tab)
    \/ HandleStart
    \/ EndFast
    \/ \E entry \in EntryInputs : AddEntry(entry)
    \/ \E form \in StorageForms(variant, profile) : SaveProfile(form)
    \/ Reload

SpecStorage == Init /\ [][NextStorage]_vars

---------------------------------------------------------------------------
(* The start-up specification: the page is loaded on a store whose items   *)
(* were left by an earlier run or damaged since; the mounted host of       *)
(* part_000 then runs its reset interval.                                  *)

\* A profile, a calorie log, a fasting history and a session that an earlier
\* run has stored.
SavedProfile(v) == [DefaultProfile(v) EXCEPT !.weight = 0]

SavedLogs ==
    << [id |-> 1, type |-> "food", name |-> "apple", calories |-> 1, timestamp |-> 0] >>

SavedFastingLogs == << [id |-> 1, startTime |-> 0, endTime |-> 1, duration |-> 1] >>

SavedFastingState == startFast(1)

\* The stores the page is loaded on: each item absent, not JSON, or the text
\* of a stored value; the profile item also the text null.  The versions
\* other than part_000 have no last-reset item.
StorageContents(v) ==
    [profile : {Item(k, SavedProfile(v)) : k \in {"missing", "corrupt", "null", "json"}},
     logs : {Item(k, SavedLogs) : k \in {"missing", "corrupt", "json"}},
     fastingLogs : {Item(k, SavedFastingLogs) : k \in {"missing", "corrupt", "json"}},
     fastingState : {Item(k, SavedFastingState) : k \in {"missing", "corrupt", "json"}},
     lastReset : IF v = "part_000"
                 THEN {Item(k, 0) : k \in {"missing", "corrupt", "json"}}
                 ELSE {Item("missing", Null)}]

\* The page is not loaded yet; the variables of the application have the
\* values of a fresh installation.
InitBoot ==
    /\ variant \in Variants
    /\ now \in 0..MaxTime
    /\ activeTab = "calories"
    /\ fastingState = Idle
    /\ fastingLogs = <<>>
    /\ nextId = 1
    /\ currentTime = Null
    /\ elapsedHours = 0
    /\ stageName = liveStage(variant, 0)
    /\ milestones = milestoneFlags(stageTable(variant), 0)
    /\ logs = <<>>
    /\ todayLogs = <<>>
    /\ todayRef = Null
    /\ profile = DefaultProfile(variant)
    /\ lastResetDate = IF variant = "part_000" THEN now ELSE Null
    /\ storage \in StorageContents(variant)
    /\ appStatus = "closed"
    /\ timers = 0
    /\ interval = FALSE
    /\ modal = "none"
    /\ lastOp = "init"

NextBoot ==
    \/ Tick
    \/ Reload
    \/ CheckReset

SpecBoot == InitBoot /\ [][NextBoot]_vars

---------------------------------------------------------------------------
(* The rollover specification: the host of part_000 is left running over   *)
(* midnight, with entries in the calorie log and a fasting session.        *)

InitRollover ==
    /\ Init
    /\ variant = "part_000"

NextRollover ==
    \/ Tick
    \/ \E tab \in Tabs : SetActiveTab(tab)
    \/ \E entry \in EntryInputs : AddEntry(entry)
    \/ HandleStart
    \/ CheckReset

SpecRollover == InitRollover /\ [][NextRollover]_vars

---------------------------------------------------------------------------
(* The history specification: every operation of the host runs while the   *)
(* fasting history is observed.                                            *)

\* The entry added while the history is observed.
HistoryEntry == [type |-> "food", name |-> "apple", calories |-> 1]

\* The profile saved while the history is observed.
HistoryForm(v) == [DefaultProfile(v) EXCEPT !.weight = 0]

\* A fresh installation, started at instant 0.
InitHistory ==
    /\ Init
    /\ now = 0

\* The clock advances to the first instant of the next day.
HistoryTick == ClockAdvance(TicksPerDay)

\* The start form is submitted with its field empty or holding the instant 0.
HistoryStart ==
    \E c \in {[kind |-> "empty", t |-> 0], [kind |-> "time", t |-> 0]} :
        StartFast(handleStart(c, now))

NextHistory ==
    \/ HistoryTick
    \/ \E tab \in Tabs : SetActiveTab(tab)
    \/ ViewTick
    \/ HistoryStart
    \/ EndFast
    \/ AddEntry(HistoryEntry)
    \/ \E id \in 1..MaxEntries : DeleteLog(id)
    \/ SaveProfile(HistoryForm(variant))
    \/ CheckReset

SpecHistory == InitHistory /\ [][NextHistory]_vars

---------------------------------------------------------------------------
(* The order specification: entries are added and deleted in the calories  *)
(* view while the clock advances.                                          *)

NextOrder ==
    \/ Tick
    \/ \E entry \in EntryInputs : AddEntry(entry)
    \/ \E id \in 1..MaxEntries : DeleteLog(id)

SpecOrder == Init /\ [][NextOrder]_vars

---------------------------------------------------------------------------
(* The fasting-view specification: the session is started and ended        *)
(* through the button and the modals of the fasting view.                  *)

\* The button of the fasting view is pressed: it opens the end modal if the
\* session is active and the start modal if not.
PressButton ==
    /\ activeTab = "fasting"
    /\ modal = "none"
    /\ modal' = IF fastingState.isActive THEN "end" ELSE "start"
    /\ lastOp' = "pressButton"
    /\ UNCHANGED <<variant, hostVars, stageVars, ledgerVars, storageVars>>
    /\ UNCHANGED <<timers, interval>>

\* The open modal is closed without confirming: onClose.
CloseModal ==
    /\ modal # "none"
    /\ modal' = "none"
    /\ lastOp' = "closeModal"
    /\ UNCHANGED <<variant, hostVars, stageVars, ledgerVars, storageVars>>
    /\ UNCHANGED <<timers, interval>>

\* The start modal is confirmed with some content of its date-time field.
ConfirmStart ==
    /\ modal = "start"
    /\ HandleStart

\* The end modal is confirmed.
ConfirmEnd ==
    /\ modal = "end"
    /\ EndFast

NextView ==
    \/ Tick
    \/ \E tab \in Tabs : SetActiveTab(tab)
    \/ ViewTick
    \/ PressButton
    \/ CloseModal
    \/ ConfirmStart
    \/ ConfirmEnd

SpecView == Init /\ [][NextView]_vars

---------------------------------------------------------------------------
(* The snapshot specification: two host callbacks run before the host      *)
(* renders again.  A callback is a closure of the last render: it reads    *)
(* the state of that render (snap), and what it hands to the setter is     *)
(* either a value or a function of the state the earlier updates of the    *)
(* batch have produced (prev).                                             *)

\* onAddLog: setLogs(prev => [newEntry, ...prev]) in part_000,
\* setLogs([{...e, id, timestamp}, ...logs]) in index.tsx and part_001.
onAddLog(v, snap, prev, entry, id, clock) ==
    IF v = "part_000" THEN addLog(prev, entry, id, clock)
    ELSE addLog(snap, entry, id, clock)

\* onDeleteLog: setLogs(prev => prev.filter(...)) in part_000,
\* setLogs(logs.filter(...)) in index.tsx and part_001.
onDeleteLog(v, snap, prev, id) ==
    IF v = "part_000" THEN deleteLog(prev, id) ELSE deleteLog(snap, id)

\* onEndFast, its update of the history: the guard reads the session of the
\* snapshot; setFastingLogs(prev => [newFastingLog, ...prev]) in part_000,
\* setFastingLogs([newLog, ...fastingLogs]) in index.tsx and part_001.
onEndFast(v, snapState, snapLogs, prev, id, clock) ==
    IF endFastGuard(v, snapState)
    THEN <<newFastingLog(id, snapState, clock, clock)>>
            \o (IF v = "part_000" THEN prev ELSE snapLogs)
    ELSE prev

\* onAddLog is called twice before the host renders again.
AddTwice(e1, e2) ==
    /\ activeTab = "calories"
    /\ nextId + 1 <= MaxEntries
    /\ logs' = onAddLog(variant, logs,
                        onAddLog(variant, logs, logs, e1, nextId, now),
                        e2, nextId + 1, now)
    /\ nextId' = nextId + 2
    /\ RenderToday(logs', now)
    /\ lastOp' = "addTwice"
    /\ UNCHANGED <<variant, now, activeTab, fastingState, fastingLogs, currentTime>>
    /\ UNCHANGED <<stageVars, profile, lastResetDate, appStatus, timerVars>>
    /\ Persist

\* onAddLog and then onDeleteLog of an entry of the collection are called
\* before the host renders again.
AddAndDelete(entry, id) ==
    /\ activeTab = "calories"
    /\ nextId <= MaxEntries
    /\ \E i \in 1..Len(logs) : logs[i].id = id
    /\ logs' = onDeleteLog(variant, logs,
                           onAddLog(variant, logs, logs, entry, nextId, now), id)
    /\ nextId' = nextId + 1
    /\ RenderToday(logs', now)
    /\ lastOp' = "addAndDelete"
    /\ UNCHANGED <<variant, now, activeTab, fastingState, fastingLogs, currentTime>>
    /\ UNCHANGED <<stageVars, profile, lastResetDate, appStatus, timerVars>>
    /\ Persist

\* onEndFast is called twice before the host renders again.
EndTwice ==
    /\ activeTab = "fasting"
    /\ endFastGuard(variant, fastingState) => Len(fastingLogs) + 1 < MaxLogs
    /\ fastingLogs' =
          onEndFast(variant, fastingState, fastingLogs,
                    onEndFast(variant, fastingState, fastingLogs, fastingLogs,
                              nextId, now),
                    nextId + 1, now)
    /\ nextId' = IF endFastGuard(variant, fastingState) THEN nextId + 2 ELSE nextId
    /\ fastingState' = endFastState(fastingState)
    /\ modal' = "none"
    /\ lastOp' = IF fastingState.isActive THEN "endTwiceActive" ELSE "endTwiceIdle"
    /\ UNCHANGED <<variant, now, activeTab, currentTime>>
    /\ UNCHANGED <<stageVars, ledgerVars, profile, lastResetDate, appStatus>>
    /\ Persist
    /\ FastingEffect

NextSnapshot ==
    \/ HistoryTick
    \/ \E tab \in Tabs : SetActiveTab(tab)
    \/ AddEntry(HistoryEntry)
    \/ AddTwice(HistoryEntry, HistoryEntry)
    \/ \E id \in 1..MaxEntries : AddAndDelete(HistoryEntry, id)
    \/ HistoryStart
    \/ EndTwice

SpecSnapshot == InitHistory /\ [][NextSnapshot]_vars

---------------------------------------------------------------------------
(* The entry-form specification: the food form and the activity form of    *)
(* the calories view of index.tsx and part_001 are submitted with every    *)
(* content of their calorie field.                                         *)

\* What is typed into a calorie field: nothing, text that is no number, or a
\* number (negative, zero or positive).
CalorieFields ==
    {[kind |-> "empty", n |-> 0], [kind |-> "text", n |-> 0]}
    \cup {[kind |-> "number", n |-> n] : n \in (0 - 1)..MaxCalories}

\* The value of an <input type="number">: the text of the number typed, the
\* empty string for anything that is no number.
inputValue(field) ==
    IF field.kind = "number" THEN field ELSE [kind |-> "empty", n |-> 0]

\* The form can be submitted: the field is required, and the handlers of
\* index.tsx return if the text is empty (a non-empty text is truthy).
formAccepts(field) == inputValue(field).kind # "empty"

\* Number(foodCalories), Number(activityCalories) of a non-empty value.
NumberOf(value) == value.n

\* The entry the food form hands to onAddLog.
handleAddFood(field) ==
    [type |-> "food", name |-> "apple", calories |-> NumberOf(inputValue(field))]

\* The entry the activity form hands to onAddLog.
handleAddActivity(field) ==
    [type |-> "activity", name |-> "Walking",
     calories |-> NumberOf(inputValue(field))]

\* A form is submitted with a calorie field the browser or the handler
\* rejects: nothing is handed to the host.
RejectEntry(field) ==
    /\ activeTab = "calories"
    /\ ~formAccepts(field)
    /\ lastOp' = "rejectEntry"
    /\ UNCHANGED <<variant, hostVars, stageVars, ledgerVars, storageVars, timerVars>>

\* The food form is submitted.
SubmitFood(field) ==
    /\ formAccepts(field)
    /\ AddEntry(handleAddFood(field))

\* The activity form is submitted.
SubmitActivity(field) ==
    /\ formAccepts(field)
    /\ AddEntry(handleAddActivity(field))

NextEntry ==
    \/ SummaryTick
    \/ \E tab \in Tabs : SetActiveTab(tab)
    \/ \E field \in CalorieFields : RejectEntry(field)
    \/ \E field \in CalorieFields : SubmitFood(field)
    \/ \E field \in CalorieFields : SubmitActivity(field)
    \/ \E id \in 1..MaxEntries : DeleteLog(id)

SpecEntry == InitToday(SummaryVariants) /\ [][NextEntry]_vars

---------------------------------------------------------------------------
(* Claims about the fasting session, checked under Spec.                   *)

\* C1: in every reachable state the session's startTime is non-null if and
\* only if the session is active, whatever start values (0 and NaN included)
\* were given.
C1_StartTimeIffActive ==
    (fastingState.startTime # Null) <=> fastingState.isActive

\* C1 witness: a session started with an unparseable date-time after an
\* earlier session was ended and logged.
C1_Witness ==
    /\ lastOp = "startFast"
    /\ fastingState.startTime = NaN
    /\ fastingLogs # <<>>

\* C2: startFast(t) on an idle session is possible for every t the form can
\* produce, yields {isActive: true, startTime: t} and leaves the fasting
\* history unchanged.
C2_StartYieldsActive ==
    /\ [](activeTab = "fasting" => \A t \in StartTimes : ENABLED StartFast(t))
    /\ [][\A t \in StartTimes :
            (StartFast(t) /\ ~fastingState.isActive)
                => /\ fastingState' = [isActive |-> TRUE, startTime |-> t]
                   /\ fastingLogs' = fastingLogs]_vars

\* C2 witness: a session was started with an instant that lies after the
\* clock, after an earlier session was ended and logged.
C2_Witness ==
    /\ lastOp = "startFast"
    /\ fastingState.isActive
    /\ fastingState.startTime # NaN
    /\ fastingState.startTime > now
    /\ fastingLogs # <<>>

\* C3: endFast() at instant n on a session active since s (any instant s,
\* 0 included) leaves the session idle and puts exactly one new log with
\* startTime = s and endTime = n in the history.
C3_EndRecordsLog ==
    [][(EndFast /\ fastingState.isActive /\ fastingState.startTime # NaN)
          => /\ fastingState' = Idle
             /\ Len(fastingLogs') = Len(fastingLogs) + 1
             /\ Tail(fastingLogs') = fastingLogs
             /\ Head(fastingLogs').startTime = fastingState.startTime
             /\ Head(fastingLogs').endTime = now]_vars

\* C4: every log in the fasting history has duration = endTime - startTime.
C4_DurationIsEndMinusStart ==
    \A i \in 1..Len(fastingLogs) :
        fastingLogs[i].duration = fastingLogs[i].endTime - fastingLogs[i].startTime

\* C5: endFast() on an idle session adds no log, leaves the history as it
\* was and leaves the session idle.
C5_EndWhileIdleIsNoOp ==
    [][(EndFast /\ ~fastingState.isActive)
          => /\ fastingLogs' = fastingLogs
             /\ fastingState' = Idle]_vars

\* C5 witness: endFast() has run on an idle session whose history already
\* holds a log.
C5_Witness ==
    /\ lastOp = "endFastIdle"
    /\ ~fastingState.isActive
    /\ fastingLogs # <<>>

\* C6: startFast(t) followed at once by endFast() at the same instant t
\* records exactly one new log, of duration 0, and the session is idle again.
C6_StartThenEndSameInstant ==
    [][(/\ EndFast
        /\ lastOp = "startFast"
        /\ fastingState.isActive
        /\ fastingState.startTime = now
        /\ now' = now)
          => /\ fastingState' = Idle
             /\ Len(fastingLogs') = Len(fastingLogs) + 1
             /\ Head(fastingLogs').duration = 0]_vars

\* C7: the elapsed value of the fasting view is never negative, and is 0
\* while the session is idle.
C7_ElapsedNeverNegative ==
    activeTab = "fasting"
        => /\ elapsedMs >= 0
           /\ (~fastingState.isActive => elapsedMs = 0)

---------------------------------------------------------------------------
(* Claims about the metabolic stages, checked under SpecStage.             *)

\* The lower bounds of the seven brackets of the stage table.
BracketFloors == <<0, 4, 12, 24, 48, 72, 96>>

\* The stage names of the table as the specification lists them.
SpecStageNames ==
    <<"Fed State", "Early Fasting", "Glycogen Depletion", "Ketosis Initiation",
      "Deep Ketosis", "Autophagy Activation", "Protein Conservation">>

\* The stage names of the table with the last one as the stage function
\* spells it.
CodeStageNames ==
    <<"Fed State", "Early Fasting", "Glycogen Depletion", "Ketosis Initiation",
      "Deep Ketosis", "Autophagy Activation", "Protein Conservation Phase">>

\* The bracket of the half-open table an hour falls in: the last bracket
\* whose lower bound is at most the hour.
BracketOf(h) ==
    CHOOSE i \in 1..Len(BracketFloors) :
        /\ BracketFloors[i] <= h
        /\ \A j \in 1..Len(BracketFloors) : BracketFloors[j] <= h => j <= i

\* The position of a stage name in the order of the stages (0: no stage).
StageRank(name) ==
    IF \E i \in 1..Len(CodeStageNames) :
            name = CodeStageNames[i] \/ name = SpecStageNames[i]
    THEN CHOOSE i \in 1..Len(CodeStageNames) :
            name = CodeStageNames[i] \/ name = SpecStageNames[i]
    ELSE 0

\* The stage index never decreases up to the hour rendered.
StageMonotonic ==
    \A h \in 0..elapsedHours :
        StageRank(liveStage(variant, h)) <= StageRank(stageName)

LastReachedMilestone ==
    LET table == stageTable(variant)
        last == CHOOSE i \in 1..Len(table) :
                    /\ milestones[i]
                    /\ \A j \in 1..Len(table) : milestones[j] => j <= i
    IN  table[last].name

\* C9: for every elapsedHours >= 0 the stage named by the live display is
\* the last milestone of the list that is marked reached.
C9_LiveStageIsLastMilestone ==
    stageName = LastReachedMilestone

---------------------------------------------------------------------------
(* Claims about the calorie ledger, checked under SpecLedger.              *)

\* C10: the day-scoped selection holds exactly the entries whose local
\* calendar date is that of the reference instant, in the order of the log
\* collection: an entry of the previous day is left out however recent, an
\* entry of the same day is kept however old.
C10_TodayLogsAreSameDate ==
    activeTab = "calories"
        => todayLogs =
              SelectSeq(logs, LAMBDA log : LocalDay(log.timestamp) = LocalDay(todayRef))

\* C10 witness: the selection was computed over an entry one tick older than
\* the reference instant and of the previous day, and an entry of the same
\* day.
C10_Witness ==
    /\ activeTab = "calories"
    /\ todayLogs # <<>>
    /\ \E i \in 1..Len(logs) :
          /\ todayRef - logs[i].timestamp = 1
          /\ LocalDay(logs[i].timestamp) # LocalDay(todayRef)

---------------------------------------------------------------------------
(* Claims about the summary of the calories view, checked under            *)
(* SpecSummary.                                                            *)

RECURSIVE SameDaySum(_, _)
\* The calories of the first n entries of the log collection that are of the
\* given kind and of the calendar day of the reference instant, added up.
SameDaySum(n, type) ==
    IF n = 0 THEN 0
    ELSE SameDaySum(n - 1, type)
            + (IF /\ logs[n].type = type
                  /\ LocalDay(logs[n].timestamp) = LocalDay(todayRef)
               THEN logs[n].calories ELSE 0)

\* C11: for every log collection and every daily target, consumed is the sum
\* of the calories of the same-day food entries, burned that of the same-day
\* activity entries, and remaining = dailyTarget - (consumed - burned),
\* negative values included.
C11_RemainingIsTargetMinusNet ==
    (activeTab = "calories" /\ dailyLimit # NaN)
        => /\ consumed(todayLogs) = Kcal(SameDaySum(Len(logs), "food"))
           /\ burned(todayLogs) = Kcal(SameDaySum(Len(logs), "activity"))
           /\ remaining(dailyLimit, todayLogs)
                 = dailyLimit - (Kcal(SameDaySum(Len(logs), "food"))
                                   - Kcal(SameDaySum(Len(logs), "activity")))

\* C11 witness: the summary of a day with a food entry and an activity entry,
\* an entry of the day before left out, and the target exceeded.
C11_Witness ==
    /\ activeTab = "calories"
    /\ dailyLimit # NaN
    /\ consumed(todayLogs) > 0
    /\ burned(todayLogs) > 0
    /\ Len(todayLogs) < Len(logs)
    /\ remaining(dailyLimit, todayLogs) < 0

\* C13: when the daily target is zero the progress percentage is 0, neither
\* infinite nor NaN; for every other daily target it is
\* net / dailyTarget x 100.
C13_PercentageOfZeroTarget ==
    LET pct == percentage(dailyLimit, todayLogs)
    IN  (activeTab = "calories" /\ dailyLimit # NaN)
            => /\ pct.kind = "finite"
               /\ IF dailyLimit = 0
                  THEN pct.num = 0
                  ELSE /\ pct.num = 100 * netCalories(todayLogs)
                       /\ pct.den = dailyLimit

\* C14: for every daily target, positive, zero or negative, and every log
\* collection, the over-limit flag is true whenever remaining <= 0; in
\* part_001 it is true exactly when remaining <= 0, in index.tsx exactly
\* when remaining <= 10% of the target.
C14_OverLimitFlag ==
    LET r == remaining(dailyLimit, todayLogs)
        flag == isRedAlert(variant, dailyLimit, todayLogs)
    IN  (activeTab = "calories" /\ dailyLimit # NaN)
            => /\ r <= 0 => flag
               /\ IF variant = "part_001"
                  THEN flag <=> r <= 0
                  ELSE flag <=> 10 * r <= dailyLimit

---------------------------------------------------------------------------
(* Claims about the daily target, checked under SpecTarget.                *)

\* C12: for every profile whose manual limit is set (non-null, the value 0
\* included) the daily limit handed to the ledger is the manual limit,
\* whatever the computed target is; the computed target is used only when
\* the manual limit is null.
C12_ManualLimitOverrides ==
    dailyLimit = IF profile.manualLimit # Null
                 THEN profile.manualLimit
                 ELSE computedTarget(variant, profile, now)

\* Four times the Mifflin-St Jeor rate in kilocalories, a whole number.
FourMifflin(weight, height, age, gender) ==
    (40 * weight) + (25 * height) - (20 * age)
        + (IF gender = "male" THEN 20 ELSE 0 - 644)

\* C15: in the versions whose profile has no activity level, the computed
\* target of a profile of age a is 10 weight + 6.25 height - 5 a + 5 for a
\* male and 10 weight + 6.25 height - 5 a - 161 for a female profile, and
\* 1648.75 for a male of 70 kg, 175 cm and 30 years; a profile without a
\* manual limit has it as its daily limit.
C15_BasalRateIsMifflinStJeor ==
    LET age == calculateAge(profile.dob, now)
        target == computedTarget(variant, profile, now)
    IN  (variant # "part_001" /\ age # NaN)
            => /\ 4 * target
                     = Kcal(FourMifflin(profile.weight, profile.height, age,
                                        profile.gender))
               /\ (profile.manualLimit = Null => dailyLimit = target)
               /\ (/\ profile.weight = 70
                   /\ profile.height = 175
                   /\ age = 30
                   /\ profile.gender = "male")
                     => target = Kcal(1648) + 3 * (Kcal(1) \div 4)

\* C15 witness: a female profile of 70 kg and 175 cm whose birthday of the
\* year is still to come was saved in a version without activity level.
C15_Witness ==
    /\ variant # "part_001"
    /\ lastOp = "saveProfile"
    /\ profile.gender = "female"
    /\ profile.weight = 70
    /\ profile.height = 175
    /\ profile.manualLimit = Null
    /\ calculateAge(profile.dob, now) = 29

\* C16: for every profile of part_001 with non-zero weight and height and a
\* date of birth of age >= 0 (0 included), calculateDailyTarget returns
\* basal rate x multiplier(activityLevel) - deficitGoal, with the
\* multipliers 1.2, 1.375, 1.55, 1.725 and 1.9, not rounded.
C16_TargetIsRateTimesMultiplier ==
    LET age == calculateAge(profile.dob, now)
        multiplier == [sedentary |-> 1200, lightly_active |-> 1375,
                       moderately_active |-> 1550, very_active |-> 1725,
                       extra_active |-> 1900]
    IN  (/\ variant = "part_001"
         /\ profile.weight # 0
         /\ profile.height # 0
         /\ profile.dob.kind = "date"
         /\ age >= 0)
            => calculateDailyTarget(profile, now)
                  = FourMifflin(profile.weight, profile.height, age, profile.gender)
                        * multiplier[profile.activityLevel]
                    - Kcal(profile.deficitGoal)

\* C17: for every profile with zero weight, zero height or an empty or
\* unparseable date of birth, the computed target of every version is the
\* default 2000.
C17_DegenerateProfileGivesDefault ==
    (\/ profile.weight = 0
     \/ profile.height = 0
     \/ profile.dob.kind # "date")
        => computedTarget(variant, profile, now) = Kcal(2000)

---------------------------------------------------------------------------
(* Claims about persistence, checked under SpecStorage and SpecBoot.       *)

\* C19: for each of the five persisted records and every value the record
\* takes in a reachable state (null manualLimit, null startTime and a start
\* instant that is not a finite number included), loading what was saved
\* reconstructs a value equal to the one saved.
C19_SaveLoadRoundTrip ==
    appStatus = "running"
        => /\ loadProfile(variant, storage.profile) = profile
           /\ loadList(storage.logs) = logs
           /\ loadList(storage.fastingLogs) = fastingLogs
           /\ loadFastingState(storage.fastingState) = fastingState
           /\ variant = "part_000"
                 => loadLastReset(storage.lastReset, now) = lastResetDate

\* The records of a version.
RecordKeys(v) ==
    {"profile", "logs", "fastingLogs", "fastingState"}
        \cup (IF v = "part_000" THEN {"lastReset"} ELSE {})

\* The records of the application as one record.
Records(p, ls, fl, fs, lr) ==
    [profile |-> p, logs |-> ls, fastingLogs |-> fl, fastingState |-> fs,
     lastReset |-> lr]

\* The records a load at instant clock is to give for a store: the value
\* stored where the item is the text of one, the type-specific default
\* where it is missing or corrupt.  (A last-reset marker of an earlier day
\* is replaced by the current instant when the host is mounted.)
ExpectedRecords(v, st, clock) ==
    [profile |-> IF st.profile.kind = "json" THEN st.profile.value
                 ELSE DefaultProfile(v),
     logs |-> IF st.logs.kind = "json" THEN st.logs.value ELSE <<>>,
     fastingLogs |-> IF st.fastingLogs.kind = "json" THEN st.fastingLogs.value
                     ELSE <<>>,
     fastingState |-> IF st.fastingState.kind = "json" THEN st.fastingState.value
                      ELSE Idle,
     lastReset |-> IF v # "part_000" THEN Null
                   ELSE IF st.lastReset.kind = "json"
                           /\ LocalDay(st.lastReset.value) = LocalDay(clock)
                   THEN st.lastReset.value
                   ELSE clock]

\* C20: when the stored value of one of the five records is missing or
\* corrupt (not parseable, or null), loading yields the default of that
\* record (default profile, empty list, Idle session, current instant)
\* without an error, and the other four records are loaded as stored.
C20_CorruptRecordGivesDefault ==
    [][\A k \in RecordKeys(variant) :
          (/\ Reload
           /\ storage[k].kind # "json"
           /\ \A j \in RecordKeys(variant) \ {k} : storage[j].kind = "json")
              => /\ appStatus' = "running"
                 /\ Records(profile', logs', fastingLogs', fastingState',
                            lastResetDate')
                       = ExpectedRecords(variant, storage, now)]_vars

---------------------------------------------------------------------------
(* Claims about the entry forms, checked under SpecEntry.                  *)

\* C21: in every reachable state every entry of the calorie log collection
\* has a calories value that is a number >= 0, never negative and never NaN,
\* whatever the food and activity forms submit (empty, non-numeric, negative
\* or well-formed numeric input).
C21_CaloriesNeverNegative ==
    \A i \in 1..Len(logs) :
        /\ logs[i].calories # NaN
        /\ logs[i].calories # Null
        /\ logs[i].calories >= 0

---------------------------------------------------------------------------
(* Claims about the refresh timer, checked under Spec.                     *)

\* C22: in every reachable state a one-second refresh timer is registered
\* if and only if the fasting view is mounted and the session is active, and
\* at most one is registered at a time: it is cancelled when the session
\* becomes idle and when the view is torn down, across any sequence of
\* start, end, mount and unmount.
C22_OneTimerIffMountedAndActive ==
    /\ timers \in {0, 1}
    /\ timers = 1 <=> (activeTab = "fasting" /\ fastingState.isActive)

\* C22 witness: the view was unmounted and mounted again on an active
\* session, after an earlier session was ended, and the timer has fired.
C22_Witness ==
    /\ lastOp = "viewTick"
    /\ timers = 1
    /\ fastingLogs # <<>>
    /\ currentTime > fastingState.startTime
    /\ fastingState.startTime # NaN

---------------------------------------------------------------------------
(* Claims about the daily rollover, checked under SpecRollover.            *)

\* C23: the rollover check changes only the last-reset marker, and only when
\* the current instant falls on another local calendar day than the marker;
\* it never changes the calorie logs, the fasting logs, the fasting session
\* or the profile; invoked again with the clock on the same day it changes
\* nothing; after the check the marker is on the calendar day of the instant
\* at which it ran.
C23_RolloverChangesOnlyMarker ==
    [][CheckReset
          => /\ <<logs, fastingLogs, fastingState, profile>>'
                   = <<logs, fastingLogs, fastingState, profile>>
             /\ lastResetDate' # lastResetDate
                   => LocalDay(now) # LocalDay(lastResetDate)
             /\ LocalDay(lastResetDate') = LocalDay(now)
             /\ lastOp \in {"checkReset", "checkResetSameDay"}
                   => lastResetDate' = lastResetDate]_vars

\* C23 witness: the check has moved the marker to the new day, with an entry
\* in the calorie log and a fasting session under way.
C23_Witness ==
    /\ lastOp = "checkReset"
    /\ lastResetDate = now
    /\ LocalDay(now) > 0
    /\ logs # <<>>
    /\ fastingState.isActive

\* C24: after the clock has crossed local midnight with the calories view
\* left open and no log added or deleted, once the periodic rollover check
\* has run the displayed aggregation holds no entry of the previous calendar
\* day: the aggregated entries are the entries of the current day.
C24_AggregationFollowsRollover ==
    (activeTab = "calories" /\ lastOp \in {"checkReset", "checkResetSameDay"})
        => todayLogs = todayLogsOf(logs, now)

---------------------------------------------------------------------------
(* Claims about the fasting history, checked under SpecHistory.            *)

\* C25: the fasting history changes only by an end operation on an active
\* session, which prepends one new log; no other operation (start, end
\* while idle, add or delete of a calorie log, profile save, rollover check,
\* refresh tick) removes, reorders or modifies a log; so the history lists
\* the completed sessions newest first and grows by one with every session
\* ended.
C25_HistoryGrowsOnlyByEnd ==
    /\ [][IF EndFast /\ fastingState.isActive
           THEN /\ Len(fastingLogs') = Len(fastingLogs) + 1
                /\ Tail(fastingLogs') = fastingLogs
           ELSE fastingLogs' = fastingLogs]_vars
    /\ [](\A i, j \in 1..Len(fastingLogs) :
             i < j => fastingLogs[i].endTime >= fastingLogs[j].endTime)

---------------------------------------------------------------------------
(* Claims about the order of the calorie log, checked under SpecOrder.     *)

---------------------------------------------------------------------------
(* Claims about invalid sessions, checked under SpecStorage.               *)

\* C27: every log of the fasting history has duration >= 0: ending a
\* session whose start instant lies after the ending instant records a log
\* of duration 0 or no log; a session marked active with a missing start
\* instant is treated as idle: its elapsed time is 0 and ending it records
\* no log.
C27_DurationNeverNegative ==
    /\ [](\A i \in 1..Len(fastingLogs) :
             /\ fastingLogs[i].duration # NaN
             /\ fastingLogs[i].duration >= 0)
    /\ []((/\ activeTab = "fasting"
            /\ fastingState.isActive
            /\ fastingState.startTime = Null) => elapsedMs = 0)
    /\ [][(/\ EndFast
           /\ fastingState.isActive
           /\ fastingState.startTime = Null) => fastingLogs' = fastingLogs]_vars

---------------------------------------------------------------------------
(* Claims about the range of the daily target, checked under SpecTarget.   *)

\* C28: for every profile (any weight, height, date of birth, gender,
\* activity level and deficit goal, a deficit goal larger than the total
\* expenditure included) the computed daily target is never negative and
\* never NaN.
C28_TargetNeverNegative ==
    /\ computedTarget(variant, profile, now) # NaN
    /\ computedTarget(variant, profile, now) >= 0

---------------------------------------------------------------------------
(* Claims about the fasting view, checked under SpecView.                  *)

\* C29: the start operation is offered only while the session is idle and
\* the end operation only while it is active, so an active session's start
\* instant is never overwritten: between the startFast that opened a session
\* and the endFast that closes it fastingState.startTime does not change,
\* and a session is never discarded without a FastingLog being recorded.
C29_SessionNeverOverwritten ==
    /\ [](modal = "start" => ~fastingState.isActive)
    /\ [](modal = "end" => fastingState.isActive)
    /\ [][(fastingState.isActive /\ fastingState'.isActive)
             => fastingState'.startTime = fastingState.startTime]_vars
    /\ [][(fastingState.isActive /\ ~fastingState'.isActive)
             => /\ Len(fastingLogs') = Len(fastingLogs) + 1
                /\ Head(fastingLogs').startTime = fastingState.startTime]_vars

---------------------------------------------------------------------------
(* Claims about stale snapshots, checked under SpecSnapshot.               *)

\* C30: no update is lost or duplicated when two host callbacks run against
\* the same rendered snapshot of the state: two addLog calls issued before
\* the host renders again both leave their entries in the log collection, a
\* deleteLog issued together with an addLog does not undo it, and two
\* endFast calls issued before the host renders again record one FastingLog
\* for the session, not two.
C30_NoLostOrDuplicatedUpdate ==
    /\ [][AddTwice(HistoryEntry, HistoryEntry)
                => /\ Len(logs') = Len(logs) + 2
                   /\ \E i \in 1..Len(logs') : logs'[i].id = nextId
                   /\ \E i \in 1..Len(logs') : logs'[i].id = nextId + 1]_vars
    /\ [][\A id \in 1..MaxEntries :
            AddAndDelete(HistoryEntry, id)
                => /\ \E i \in 1..Len(logs') : logs'[i].id = nextId
                   /\ \A i \in 1..Len(logs') : logs'[i].id # id]_vars
    /\ [][(EndTwice /\ endFastGuard(variant, fastingState))
             => Len(fastingLogs') = Len(fastingLogs) + 1]_vars

====
